---- MODULE Spec2Model ----
(***************************************************************************)
(* Model of the playlist codec and the playlist edit session of the        *)
(* audio playlist manager (src/components/playlist-manager.tsx), together  *)
(* with the parts of HomePage (src/unnamed/part_001) and of                *)
(* GoogleDriveService (src/unnamed/part_004) the session depends on.       *)
(*                                                                         *)
(* A JavaScript string is modelled as the sequence of its code points      *)
(* (naturals); all strings the program handles here are well formed        *)
(* (fetched texts are UTF-8 decoded, file names come from JSON).           *)
(*                                                                         *)
(* A storage call is a record of inFlight from the moment the handler      *)
(* awaits it until its response is handled; a response is handled by the   *)
(* handler that issued the call even if its component instance has been    *)
(* unmounted since (its state setters then change nothing, its onAuthError *)
(* still reaches HomePage). While no instance is mounted the component     *)
(* variables hold the useState initial values. A drag and its drop are one *)
(* step, the drag starting on an item of the list shown. The listings of   *)
(* the audio directories are taken as loaded.                              *)
(***************************************************************************)
EXTENDS Integers, Sequences, FiniteSets, TLC

(***************************************************************************)
(* Characters and string literals                                          *)
(***************************************************************************)

\* the printable ASCII characters from code point 32 to 95 and from 97 to 126
AsciiLow == " !\"#$%&'()*+,-./0123456789:;<=>?@ABCDEFGHIJKLMNOPQRSTUVWXYZ[\\]^_"

AsciiHigh == "abcdefghijklmnopqrstuvwxyz{|}~"

\* code point of the printable ASCII character c, a one-character string
ord(c) ==
    IF \E i \in 1..Len(AsciiLow) : SubSeq(AsciiLow, i, i) = c
    THEN 31 + (CHOOSE i \in 1..Len(AsciiLow) : SubSeq(AsciiLow, i, i) = c)
    ELSE 96 + (CHOOSE i \in 1..Len(AsciiHigh) : SubSeq(AsciiHigh, i, i) = c)

\* the string literal s as its sequence of code points
Str(s) == [i \in 1..Len(s) |-> ord(SubSeq(s, i, i))]

\* the code point of the one-character string c
Chr(c) == ord(c)


\* the characters the program's literals and regular expressions name
LineFeed == 10

CarriageReturn == 13

Space == Chr(" ")

Plus == Chr("+")

Percent == Chr("%")

Dot == Chr(".")

Slash == Chr("/")

Backslash == Chr("\\")

Less == Chr("<")

Greater == Chr(">")

Pipe == Chr("|")

Dollar == Chr("$")

Ampersand == Chr("&")

Apostrophe == Chr("'")

Backtick == 96

\* the escape of the space character
Pct20 == Str("%20")
(***************************************************************************)
(* String primitives of the JavaScript runtime used by the codec           *)
(***************************************************************************)

Min(S) == CHOOSE x \in S : \A y \in S : x <= y

Max(S) == CHOOSE x \in S : \A y \in S : x >= y

\* WhiteSpace and LineTerminator code points: what String.prototype.trim strips
IsWhiteSpace(c) ==
    \/ c \in {9, 10, 11, 12, 13, 32, 160, 5760, 8232, 8233, 8239, 8287, 12288, 65279}
    \/ (c >= 8192 /\ c <= 8202)

\* the characters the regular expression atom "." does not match
IsLineTerminator(c) == c \in {10, 13, 8232, 8233}

RECURSIVE TrimStart(_)
TrimStart(s) ==
    IF s # <<>> /\ IsWhiteSpace(Head(s)) THEN TrimStart(Tail(s)) ELSE s

RECURSIVE TrimEnd(_)
TrimEnd(s) ==
    IF s # <<>> /\ IsWhiteSpace(s[Len(s)])
    THEN TrimEnd(SubSeq(s, 1, Len(s) - 1))
    ELSE s

\* String.prototype.trim
Trim(s) == TrimEnd(TrimStart(s))

\* String.prototype.startsWith
StartsWith(s, p) == Len(s) >= Len(p) /\ SubSeq(s, 1, Len(p)) = p

\* String.prototype.split with a one-character separator c
RECURSIVE Split(_, _)
Split(s, c) ==
    IF \A i \in 1..Len(s) : s[i] # c
    THEN <<s>>
    ELSE LET k == Min({i \in 1..Len(s) : s[i] = c})
         IN  <<SubSeq(s, 1, k - 1)>> \o Split(SubSeq(s, k + 1, Len(s)), c)

\* Array.prototype.join with a one-character separator c
RECURSIVE Join(_, _)
Join(parts, c) ==
    IF parts = <<>> THEN <<>>
    ELSE IF Len(parts) = 1 THEN parts[1]
    ELSE parts[1] \o <<c>> \o Join(Tail(parts), c)

\* s.replace(/\+/g, " ")
ReplacePlusBySpace(s) == [i \in DOMAIN s |-> IF s[i] = Plus THEN Space ELSE s[i]]

\* s.replace(/%20/g, "+")
RECURSIVE ReplacePct20ByPlus(_)
ReplacePct20ByPlus(s) ==
    IF s = <<>> THEN <<>>
    ELSE IF StartsWith(s, Pct20)
         THEN <<Plus>> \o ReplacePct20ByPlus(SubSeq(s, 4, Len(s)))
         ELSE <<Head(s)>> \o ReplacePct20ByPlus(Tail(s))

(***************************************************************************)
(* encodeURIComponent / decodeURIComponent (ECMAScript Encode and Decode)  *)
(***************************************************************************)

\* value of a hexadecimal digit, -1 for any other character
HexVal(c) ==
    IF c >= 48 /\ c <= 57 THEN c - 48
    ELSE IF c >= 65 /\ c <= 70 THEN c - 55
    ELSE IF c >= 97 /\ c <= 102 THEN c - 87
    ELSE -1

\* upper-case hexadecimal digit of n in 0..15
HexDigit(n) == IF n < 10 THEN 48 + n ELSE 55 + n

\* "%XY" for the octet b
PctOctet(b) == <<Percent, HexDigit(b \div 16), HexDigit(b % 16)>>

\* the characters encodeURIComponent leaves alone: A-Z a-z 0-9 - _ . ! ~ * ' ( )
IsUriUnreserved(c) ==
    \/ (c >= 65 /\ c <= 90) \/ (c >= 97 /\ c <= 122) \/ (c >= 48 /\ c <= 57)
    \/ c \in {45, 95, 46, 33, 126, 42, 39, 40, 41}

\* the UTF-8 octets of the code point c
Utf8(c) ==
    IF c < 128 THEN <<c>>
    ELSE IF c < 2048 THEN <<192 + (c \div 64), 128 + (c % 64)>>
    ELSE IF c < 65536
         THEN <<224 + (c \div 4096), 128 + ((c \div 64) % 64), 128 + (c % 64)>>
         ELSE <<240 + (c \div 262144), 128 + ((c \div 4096) % 64),
                128 + ((c \div 64) % 64), 128 + (c % 64)>>

RECURSIVE PctOctets(_)
PctOctets(bs) == IF bs = <<>> THEN <<>> ELSE PctOctet(Head(bs)) \o PctOctets(Tail(bs))

\* encodeURIComponent of a well-formed string
RECURSIVE encodeURIComponent(_)
encodeURIComponent(s) ==
    IF s = <<>> THEN <<>>
    ELSE (IF IsUriUnreserved(Head(s)) THEN <<Head(s)>> ELSE PctOctets(Utf8(Head(s))))
         \o encodeURIComponent(Tail(s))

\* the octet written "%XY" at position k of s, or -1 when s has no such escape there
OctetAt(s, k) ==
    IF k + 2 <= Len(s) /\ s[k] = Percent /\ HexVal(s[k + 1]) >= 0 /\ HexVal(s[k + 2]) >= 0
    THEN 16 * HexVal(s[k + 1]) + HexVal(s[k + 2])
    ELSE -1

\* number of octets of the UTF-8 sequence the octet b leads, 0 when b leads none
Utf8Length(b) ==
    IF b < 128 THEN 1
    ELSE IF b >= 192 /\ b <= 223 THEN 2
    ELSE IF b >= 224 /\ b <= 239 THEN 3
    ELSE IF b >= 240 /\ b <= 247 THEN 4
    ELSE 0

\* the escape sequence starting at position k of s decoded to one code point:
\* [n |-> characters of s consumed, c |-> code point], n = 0 for a URIError
DecodeEscape(s, k) ==
    LET b0 == OctetAt(s, k)
        n  == IF b0 < 0 THEN 0 ELSE Utf8Length(b0)
        Cont(j) == OctetAt(s, k + 3 * j)
        contOk == \A j \in 1..(n - 1) : Cont(j) >= 128 /\ Cont(j) <= 191
        v  == IF n = 1 THEN b0
              ELSE IF n = 2 THEN (b0 - 192) * 64 + (Cont(1) - 128)
              ELSE IF n = 3
                   THEN (b0 - 224) * 4096 + (Cont(1) - 128) * 64 + (Cont(2) - 128)
                   ELSE (b0 - 240) * 262144 + (Cont(1) - 128) * 4096
                        + (Cont(2) - 128) * 64 + (Cont(3) - 128)
        lowest == IF n = 2 THEN 128 ELSE IF n = 3 THEN 2048 ELSE IF n = 4 THEN 65536 ELSE 0
    IN  IF n = 0 \/ ~contOk THEN [n |-> 0, c |-> 0]
        ELSE IF v < lowest \/ (v >= 55296 /\ v <= 57343) \/ v > 1114111
             THEN [n |-> 0, c |-> 0]
             ELSE [n |-> 3 * n, c |-> v]

\* decodeURIComponent: [raised |-> TRUE] for a URIError, else the decoded string
RECURSIVE decodeURIComponentFrom(_, _, _)
decodeURIComponentFrom(s, k, acc) ==
    IF k > Len(s) THEN [raised |-> FALSE, value |-> acc]
    ELSE IF s[k] # Percent THEN decodeURIComponentFrom(s, k + 1, Append(acc, s[k]))
    ELSE LET e == DecodeEscape(s, k)
         IN  IF e.n = 0 THEN [raised |-> TRUE, value |-> <<>>]
             ELSE decodeURIComponentFrom(s, k + e.n, Append(acc, e.c))

decodeURIComponent(s) == decodeURIComponentFrom(s, 1, <<>>)

(***************************************************************************)
(* Playlist codec                                                          *)
(***************************************************************************)

\* the format line
ExtM3U == Str("#EXTM3U")

\* the prefix of the container line
ContainerPrefix == Str("Container=")

\* the container name written when the session has none
NotPredefined ==
    Str("Not predefined")

\* the text of a playlist without items
EmptyPlaylistContent == ExtM3U \o <<LineFeed>>

\* filename.replace(/\.[^/.]+$/, "")
removeFileExtension(filename) ==
    LET dots == {i \in 1..Len(filename) : filename[i] = Dot}
    IN  IF dots = {} THEN filename
        ELSE LET d == Max(dots)
             IN  IF d < Len(filename)
                    /\ \A j \in (d + 1)..Len(filename) : filename[j] # Slash
                 THEN SubSeq(filename, 1, d - 1)
                 ELSE filename

\* s.split(c).pop()
LastPiece(s, c) == LET ps == Split(s, c) IN ps[Len(ps)]

\* p.split("\\").pop() || p.split("/").pop() || p
FullFilename(p) ==
    IF LastPiece(p, Backslash) # <<>> THEN LastPiece(p, Backslash)
    ELSE IF LastPiece(p, Slash) # <<>> THEN LastPiece(p, Slash)
    ELSE p

\* line.match(/Container=<([^>]+)>(.+)/) tried at position i of line
MatchContainerAt(line, i) ==
    LET pre == ContainerPrefix \o <<Less>>
        n   == Len(line)
        a   == i + Len(pre)
        gts == {k \in a..n : line[k] = Greater}
        g   == IF gts = {} THEN 0 ELSE Min(gts)
        lts == {k \in (g + 1)..n : IsLineTerminator(line[k])}
        e   == IF lts = {} THEN n ELSE Min(lts) - 1
    IN  IF a - 1 > n \/ SubSeq(line, i, a - 1) # pre \/ gts = {} \/ g = a \/ e < g + 1
        THEN [found |-> FALSE, name |-> <<>>, paths |-> <<>>]
        ELSE [found |-> TRUE, name |-> SubSeq(line, a, g - 1),
              paths |-> SubSeq(line, g + 1, e)]

\* line.match(/Container=<([^>]+)>(.+)/): the leftmost match
MatchContainer(line) ==
    LET starts == {i \in 1..Len(line) : MatchContainerAt(line, i).found}
    IN  IF starts = {} THEN [found |-> FALSE, name |-> <<>>, paths |-> <<>>]
        ELSE MatchContainerAt(line, Min(starts))

\* the paths.forEach body: the items of the '|'-separated path list
RECURSIVE ItemsOfPaths(_)
ItemsOfPaths(paths) ==
    IF paths = <<>> THEN <<>>
    ELSE LET p == Head(paths)
         IN  (IF Trim(p) # <<>>
              THEN <<[path |-> Trim(p), filename |-> removeFileExtension(FullFilename(p))]>>
              ELSE <<>>) \o ItemsOfPaths(Tail(paths))

\* the for loop of parsePlaylistContent over the non-blank lines, from the
\* accumulated document acc; raised when decodeURIComponent throws
RECURSIVE ParseLines(_, _)
ParseLines(lines, acc) ==
    IF lines = <<>> THEN acc
    ELSE LET line == Head(lines)
             m    == MatchContainer(line)
             d    == decodeURIComponent(ReplacePlusBySpace(m.name))
         IN  IF StartsWith(line, ExtM3U) THEN ParseLines(Tail(lines), acc)
             ELSE IF StartsWith(line, ContainerPrefix) /\ m.found
                  THEN IF d.raised
                       THEN [raised |-> TRUE, name |-> <<>>, items |-> <<>>]
                       ELSE ParseLines(Tail(lines),
                                [raised |-> FALSE, name |-> d.value,
                                 items |-> acc.items \o ItemsOfPaths(Split(m.paths, Pipe))])
                  ELSE ParseLines(Tail(lines), acc)

IsNonBlank(l) == Trim(l) # <<>>

\* parsePlaylistContent reading every line that is neither a comment nor a
\* Container line as the path of an item, as an M3U reader does
parsePlaylistContentPathLines(content) ==
    LET lines == SelectSeq(Split(content, LineFeed), IsNonBlank)
        IsPathLine(l) == l[1] # ExtM3U[1] /\ ~StartsWith(l, ContainerPrefix)
        d == ParseLines(lines, [raised |-> FALSE, name |-> <<>>, items |-> <<>>])
    IN  IF d.raised THEN d
        ELSE [d EXCEPT !.items = @ \o ItemsOfPaths(SelectSeq(lines, IsPathLine))]

\* parsePlaylistContent: the container name and the items it hands to the
\* state setters, or raised (no setter is called) when it throws a URIError
parsePlaylistContent(content) ==
    ParseLines(SelectSeq(Split(content, LineFeed), IsNonBlank),
               [raised |-> FALSE, name |-> <<>>, items |-> <<>>])

\* playlistItems.map((i) => i.path)
PathsOf(items) == [i \in DOMAIN items |-> items[i].path]

\* generatePlaylistContent writing the container name as it is, without
\* percent-encoding
generatePlaylistContentRaw(name, items) ==
    IF Len(items) = 0 THEN EmptyPlaylistContent
    ELSE ExtM3U \o <<LineFeed>> \o ContainerPrefix \o <<Less>>
         \o (IF name = <<>> THEN NotPredefined ELSE name)
         \o <<Greater>> \o Join(PathsOf(items), Pipe) \o <<LineFeed>>

\* generatePlaylistContent writing a container line for an empty item list too
generatePlaylistContentAlwaysContainer(name, items) ==
    ExtM3U \o <<LineFeed>> \o ContainerPrefix \o <<Less>>
    \o ReplacePct20ByPlus(encodeURIComponent(IF name = <<>> THEN NotPredefined ELSE name))
    \o <<Greater>> \o Join(PathsOf(items), Pipe) \o <<LineFeed>>

\* generatePlaylistContent percent-encoding the joined paths like the name
generatePlaylistContentEncodedPaths(name, items) ==
    IF Len(items) = 0 THEN EmptyPlaylistContent
    ELSE ExtM3U \o <<LineFeed>> \o ContainerPrefix \o <<Less>>
         \o ReplacePct20ByPlus(
                encodeURIComponent(IF name = <<>> THEN NotPredefined ELSE name))
         \o <<Greater>>
         \o ReplacePct20ByPlus(encodeURIComponent(Join(PathsOf(items), Pipe)))
         \o <<LineFeed>>

\* generatePlaylistContent for the document (containerName, playlistItems)
generatePlaylistContent(name, items) ==
    IF Len(items) = 0 THEN EmptyPlaylistContent
    ELSE LET paths == Join(PathsOf(items), Pipe)
             encodedName ==
                 ReplacePct20ByPlus(
                     encodeURIComponent(IF name = <<>> THEN NotPredefined ELSE name))
         IN  ExtM3U \o <<LineFeed>> \o ContainerPrefix \o <<Less>> \o encodedName
             \o <<Greater>> \o paths \o <<LineFeed>>


(***************************************************************************)
(* Configuration, inputs and bounds                                        *)
(***************************************************************************)

\* most items addFileToPlaylist appends up to
MaxItems == 2

\* most mounts of PlaylistManager (authentications) in one run
MaxMounts == 2

\* most getFileContent and updateFile calls in one run of the edit session
MaxRequests == 2

\* most getFileContent and updateFile calls in one run with re-authentication
MaxReauthRequests == 5

\* most getFileContent calls in one run of editing between a load and a save
MaxEditRequests == 1

\* most getFileContent calls in one run of the codec specification
MaxCodecRequests == 1

\* most tokens of the encoded container name of a codec input
MaxNameTokens == 2

\* most getFileContent and updateFile calls in one run of overlapping calls
MaxOverlapRequests == 3

\* pages of a folder listing and files per page
MaxPages == 3

MaxPageFiles == 2

\* the substitution token of a path template
AudioFilenameToken == Str("{audio_filename}")

\* the configured audio directories (the first two of the active configuration)
DEFAULT_AUDIO_DIRECTORIES ==
    << [name |-> "IDs-",
        localPath |-> Str("T:\\REGFM RadioBOSS\\IDs\\{audio_filename}")],
       [name |-> "CSAs - Audio",
        localPath |-> Str("T:\\REGFM RadioBOSS\\CSAs Audio\\{audio_filename}")] >>

\* the fallback prefix of buildPathForFile
FallbackPrefix == Str("T:\\My Drive\\Audio\\")

\* names of the audio files the directory listings show
AudioFileNames == {Str("a.mp3"), Str("c|d.mp3"), Str("Ca$$h.mp3")}

\* identifiers of the playlist files of the playlist folder
PlaylistIds == {1, 2}

\* selectedPlaylist = null
NoPlaylist == 0

\* error = null, saveError = null
NoError == "null"

\* messages of the errors the storage service throws
AuthExpiredMessage == "Authentication expired. Please sign in again."

NotAuthenticatedMessage == "Not authenticated. Please sign in first."

FetchFilesFailedMessage == "Failed to fetch files: 500"

FetchContentFailedMessage == "Failed to fetch file content: 500"

UpdateFailedMessage == "Failed to update file: 500"

\* errorMessage.includes("Authentication expired") || errorMessage.includes("Not authenticated")
IsAuthenticationError(message) == message \in {AuthExpiredMessage, NotAuthenticatedMessage}

\* the message of the error a storage call of the given kind throws on a
\* response that is not ok: status 401, or any other status
ThrownMessage(kind, outcome) ==
    IF outcome = "unauthorized" THEN AuthExpiredMessage
    ELSE IF kind = "list" THEN FetchFilesFailedMessage
    ELSE IF kind = "load" THEN FetchContentFailedMessage
    ELSE UpdateFailedMessage

\* the container line for an encoded name and a path list
ContainerLine(encodedName, paths) ==
    ContainerPrefix \o Str("<") \o encodedName \o Str(">") \o paths

\* playlist texts the folder holds when the application starts
DuplicateText ==
    ExtM3U \o <<LineFeed>>
    \o ContainerLine(Str("Mix"),
           Str("T:\\REGFM RadioBOSS\\IDs\\a.mp3|T:\\REGFM RadioBOSS\\IDs\\a.mp3"))
    \o <<LineFeed>>

MalformedText ==
    ExtM3U \o <<LineFeed>>
    \o ContainerLine(Str("50%"), Str("T:\\REGFM RadioBOSS\\IDs\\b.wav"))
    \o <<LineFeed>>

PathA == Str("T:\\REGFM RadioBOSS\\IDs\\a.mp3")

PathB == Str("T:\\REGFM RadioBOSS\\IDs\\b.wav")

PathC == Str("T:/Promos/c.mp3")

ShowText ==
    ExtM3U \o <<LineFeed>>
    \o ContainerLine(Str("Morning+Show"), PathA \o Str("|") \o PathB \o Str("|") \o PathC)
    \o <<LineFeed>>

InitialTexts == {DuplicateText, MalformedText}

\* playlist texts of the runs that edit between a load and a save
EditTexts == {ShowText, MalformedText, DuplicateText}

\* pieces of encoded container names: plain, '+', escapes of ASCII characters,
\* malformed escapes, UTF-8 escapes and a lone continuation octet
NameTokens ==
    { Str("a"), Str("+"), Str("%20"), Str("%2B"), Str("%25"), Str("%3E"),
      Str("%"), Str("%2"), Str("%zz"), Str("%C3%A9"), Str("%80"), <<233>>, Str("Not+predefined") }

RECURSIVE NamesOfTokens(_)
NamesOfTokens(n) ==
    IF n = 0 THEN {<<>>}
    ELSE LET shorter == NamesOfTokens(n - 1)
         IN  shorter \cup {s \o t : s \in shorter, t \in NameTokens}

\* the encoded container names of the codec inputs
EncodedNames == NamesOfTokens(MaxNameTokens)

\* the path lists of the codec inputs
PathLists ==
    { <<>>, Str("C:\\a.mp3"), Str("C:\\a.mp3|C:\\b.wav"), Str(" C:\\a.mp3 | |/m/b.c.wav "),
      Str("x|x"), Str("|"), Str("a>b") \o <<CarriageReturn>> }

\* the texts of the codec inputs: the two-line file, a file without format
\* line after a line that is no container line, and a file of two container lines
CodecTexts ==
    UNION { { ExtM3U \o <<LineFeed>> \o ContainerLine(n, p) \o <<LineFeed>>,
              Str("garbage") \o <<LineFeed>> \o ContainerLine(n, p),
              ContainerLine(Str("x"), Str("C:\\z.mp3")) \o <<LineFeed>> \o ContainerLine(n, p) \o <<LineFeed>> } :
            n \in EncodedNames, p \in PathLists }
      \cup {EmptyPlaylistContent, <<>>, Str("garbage") \o <<LineFeed>>,
            ContainerPrefix \o Str("a.mp3") \o <<LineFeed>>}

(***************************************************************************)
(* State                                                                   *)
(***************************************************************************)

VARIABLES
    accessToken,            \* HomePage: TRUE when its access token is not null
    serviceAccessToken,     \* GoogleDriveService.accessToken is not null
    storedTokens,           \* the tokens of localStorage are present
    mountCount,             \* how many times PlaylistManager was mounted
    isLoading,              \* PlaylistManager state, as declared by useState
    error,
    playlists,
    selectedPlaylist,
    selectedDirectoryName,
    originalContent,
    playlistItems,
    containerName,
    isPlaylistLoading,
    isSaving,
    saveError,
    driveContent,           \* the text of every playlist file in the storage
    inFlight,               \* the storage requests awaiting their response
    requestsLeft,           \* how many more getFileContent and updateFile calls the run makes
    pages,                  \* the pages the storage serves for the listed folder
    allFiles,               \* GoogleDriveService.listFiles: its local variables
    pageCount,
    nextPageToken,
    listStatus,             \* where the listFiles call is: idle, awaiting, returned, thrown
    listResult,             \* the list the call has returned
    listError               \* the message of the error the call has thrown

appVars == <<accessToken, serviceAccessToken, storedTokens, mountCount>>

listVars == <<isLoading, error, playlists>>

sessionVars ==
    <<selectedPlaylist, selectedDirectoryName, originalContent, playlistItems,
      containerName, isPlaylistLoading, isSaving, saveError>>

pagingVars ==
    <<pages, allFiles, pageCount, nextPageToken, listStatus, listResult, listError>>

vars ==
    <<appVars, listVars, sessionVars, driveContent, inFlight, requestsLeft, pagingVars>>

(***************************************************************************)
(* Path template resolution                                                *)
(***************************************************************************)

\* position of the first occurrence of pattern in s, 0 when there is none
IndexOf(s, pattern) ==
    LET at == {i \in 1..(Len(s) - Len(pattern) + 1) :
                  SubSeq(s, i, i + Len(pattern) - 1) = pattern}
    IN  IF at = {} THEN 0 ELSE Min(at)

\* GetSubstitution for a string pattern: the replacement text with its
\* $$, $&, $` and $' sequences expanded
RECURSIVE GetSubstitution(_, _, _, _)
GetSubstitution(replacement, matched, before, after) ==
    IF replacement = <<>> THEN <<>>
    ELSE IF Head(replacement) = Dollar /\ Len(replacement) >= 2
         THEN LET c    == replacement[2]
                  rest == SubSeq(replacement, 3, Len(replacement))
              IN  IF c = Dollar
                  THEN <<Dollar>> \o GetSubstitution(rest, matched, before, after)
                  ELSE IF c = Ampersand
                  THEN matched \o GetSubstitution(rest, matched, before, after)
                  ELSE IF c = Backtick
                  THEN before \o GetSubstitution(rest, matched, before, after)
                  ELSE IF c = Apostrophe
                  THEN after \o GetSubstitution(rest, matched, before, after)
                  ELSE <<Dollar>> \o GetSubstitution(Tail(replacement), matched, before, after)
         ELSE <<Head(replacement)>> \o GetSubstitution(Tail(replacement), matched, before, after)

\* s.replace(pattern, replacement) with a string pattern: the first occurrence
StringReplace(s, pattern, replacement) ==
    LET k == IndexOf(s, pattern)
        before == SubSeq(s, 1, k - 1)
        after  == SubSeq(s, k + Len(pattern), Len(s))
    IN  IF k = 0 THEN s
        ELSE before \o GetSubstitution(replacement, pattern, before, after) \o after

\* audioDirectories.find((d) => d.name === selectedDirectoryName), as an index
DirectoryIndexes == 1..Len(DEFAULT_AUDIO_DIRECTORIES)

\* buildPathForFile(file, directory) for the directory with index dir;
\* dir = 0 stands for an undefined directory
buildPathForFile(fileName, dir) ==
    IF dir # 0
    THEN StringReplace(DEFAULT_AUDIO_DIRECTORIES[dir].localPath, AudioFilenameToken, fileName)
    ELSE FallbackPrefix \o fileName

\* playlistItems.some((it) => it.path === p)
HasPath(items, p) == \E i \in 1..Len(items) : items[i].path = p

\* isInPlaylist(file)
isInPlaylist(fileName) ==
    HasPath(playlistItems, buildPathForFile(fileName, selectedDirectoryName))

(***************************************************************************)
(* Mounting and unmounting of PlaylistManager                              *)
(***************************************************************************)

\* PlaylistManager is rendered by HomePage
Mounted == accessToken

\* the playlist panes are rendered (neither the spinner nor the error card)
MainViewShown == Mounted /\ ~isLoading /\ error = NoError

\* the playlist content pane shows the item list and the Save and Reset buttons
ContentShown == MainViewShown /\ selectedPlaylist # NoPlaylist /\ ~isPlaylistLoading

\* the useState initial values of a PlaylistManager instance; also the values
\* the variables hold while no instance is mounted
FreshComponent ==
    /\ isLoading' = TRUE
    /\ error' = NoError
    /\ playlists' = {}
    /\ selectedPlaylist' = NoPlaylist
    /\ selectedDirectoryName' = 1
    /\ originalContent' = EmptyPlaylistContent
    /\ playlistItems' = <<>>
    /\ containerName' = <<>>
    /\ isPlaylistLoading' = FALSE
    /\ isSaving' = FALSE
    /\ saveError' = NoError

\* an identifier no outstanding request uses
FreeRequestId == Min({i \in 1..(Cardinality(inFlight) + 1) : \A r \in inFlight : r.id # i})

CanIssue == requestsLeft > 0

Request(kind, file, content) ==
    [id |-> FreeRequestId, kind |-> kind, mount |-> mountCount,
     file |-> file, content |-> content]

\* the request was issued by the instance that is mounted now
IsCurrent(r) == Mounted /\ r.mount = mountCount

\* HomePage.handleAuthError with GoogleDriveService.clearAuthentication: the
\* token is dropped, so PlaylistManager is unmounted and its state is gone
handleAuthError ==
    /\ accessToken' = FALSE
    /\ serviceAccessToken' = FALSE
    /\ storedTokens' = FALSE
    /\ FreshComponent
    /\ UNCHANGED mountCount

\* HomePage.handleAuthenticated: PlaylistManager is mounted and its effects
\* run: loadInitialData sets the service token and lists the playlist folder
handleAuthenticated ==
    /\ ~accessToken
    /\ mountCount < MaxMounts
    /\ accessToken' = TRUE
    /\ serviceAccessToken' = TRUE
    /\ storedTokens' = TRUE
    /\ mountCount' = mountCount + 1
    /\ FreshComponent
    /\ inFlight' = inFlight \cup
           {[id |-> FreeRequestId, kind |-> "list", mount |-> mountCount + 1,
             file |-> NoPlaylist, content |-> <<>>]}
    /\ UNCHANGED <<driveContent, requestsLeft,
                   pagingVars>>

\* handleRetry of the error card: loadInitialData again
handleRetry ==
    /\ Mounted /\ ~isLoading /\ error # NoError
    /\ isLoading' = TRUE
    /\ error' = NoError
    /\ serviceAccessToken' = TRUE
    /\ inFlight' = inFlight \cup {Request("list", NoPlaylist, <<>>)}
    /\ UNCHANGED <<accessToken, storedTokens, mountCount, playlists, sessionVars,
                   driveContent, requestsLeft,
                   pagingVars>>

\* the 401 branch of a service call under a catch block that does not call
\* onAuthError: only the service forgets its tokens
UnauthorizedInServiceOnly(r) ==
    /\ inFlight' = inFlight \ {r}
    /\ serviceAccessToken' = FALSE
    /\ storedTokens' = FALSE
    /\ UNCHANGED <<accessToken, mountCount, listVars, sessionVars, driveContent,
                   requestsLeft,
                   pagingVars>>

\* the 401 branch of a service call followed by the component's catch block:
\* stored tokens and service token are cleared, then onAuthError runs
Unauthorized(r) ==
    /\ inFlight' = inFlight \ {r}
    /\ handleAuthError
    /\ UNCHANGED <<driveContent, requestsLeft,
                   pagingVars>>

\* the response to the listFiles call of loadInitialData
ListFilesResponse(r, outcome) ==
    /\ r \in inFlight /\ r.kind = "list"
    /\ IF outcome # "ok" /\ IsAuthenticationError(ThrownMessage(r.kind, outcome))
       THEN Unauthorized(r)
       ELSE /\ inFlight' = inFlight \ {r}
            /\ UNCHANGED <<appVars, sessionVars, driveContent, requestsLeft,
                           pagingVars>>
            /\ IF ~IsCurrent(r) THEN UNCHANGED listVars
               ELSE /\ isLoading' = FALSE
                    /\ IF outcome = "ok"
                       THEN playlists' = PlaylistIds /\ UNCHANGED error
                       ELSE error' = ThrownMessage(r.kind, outcome) /\ UNCHANGED playlists

(***************************************************************************)
(* The edit session                                                        *)
(***************************************************************************)

\* onClick of a playlist button: setSelectedPlaylist(pl), then the load effect
\* up to its await of getFileContent
selectPlaylist(pl) ==
    /\ MainViewShown
    /\ pl \in playlists /\ pl # selectedPlaylist
    /\ CanIssue
    /\ selectedPlaylist' = pl
    /\ isPlaylistLoading' = TRUE
    /\ inFlight' = inFlight \cup {Request("load", pl, <<>>)}
    /\ requestsLeft' = requestsLeft - 1
    /\ UNCHANGED pagingVars
    /\ UNCHANGED <<appVars, listVars, selectedDirectoryName, originalContent,
                   playlistItems, containerName, isSaving, saveError, driveContent>>

\* the load effect from the response of getFileContent to its finally block
LoadResponse(r, outcome) ==
    /\ r \in inFlight /\ r.kind = "load"
    /\ IF outcome # "ok" /\ IsAuthenticationError(ThrownMessage(r.kind, outcome))
       THEN Unauthorized(r)
       ELSE /\ inFlight' = inFlight \ {r}
            /\ UNCHANGED <<appVars, listVars, driveContent, requestsLeft,
                           pagingVars>>
            /\ IF ~IsCurrent(r) THEN UNCHANGED sessionVars
               ELSE /\ isPlaylistLoading' = FALSE
                    /\ UNCHANGED <<selectedPlaylist, selectedDirectoryName, isSaving,
                                   saveError>>
                    /\ IF outcome # "ok"
                       THEN UNCHANGED <<originalContent, playlistItems, containerName>>
                       ELSE LET content == driveContent[r.file]
                                doc     == parsePlaylistContent(content)
                            IN  /\ originalContent' = content
                                /\ IF doc.raised
                                   THEN UNCHANGED <<playlistItems, containerName>>
                                   ELSE /\ containerName' = doc.name
                                        /\ playlistItems' = doc.items

\* onValueChange of the audio folder select
selectDirectory(dir) ==
    /\ MainViewShown
    /\ dir \in DirectoryIndexes /\ dir # selectedDirectoryName
    /\ selectedDirectoryName' = dir
    /\ UNCHANGED <<appVars, listVars, selectedPlaylist, originalContent, playlistItems,
                   containerName, isPlaylistLoading, isSaving, saveError, driveContent,
                   inFlight, requestsLeft,
                   pagingVars>>

\* addFileToPlaylist without the check for an existing path
AddedItemsUnchecked(items, fileName, dir) ==
    Append(items, [path |-> buildPathForFile(fileName, dir),
                   filename |-> removeFileExtension(fileName)])

\* addFileToPlaylist putting the new item first
AddedItemsFirst(items, fileName, dir) ==
    LET p == buildPathForFile(fileName, dir)
    IN  IF HasPath(items, p) THEN items
        ELSE <<[path |-> p, filename |-> removeFileExtension(fileName)]>> \o items

\* the list addFileToPlaylist leaves for the list items
AddedItems(items, fileName, dir) ==
    LET p == buildPathForFile(fileName, dir)
    IN  IF HasPath(items, p) THEN items
        ELSE Append(items, [path |-> p, filename |-> removeFileExtension(fileName)])

\* the item list addFileToPlaylist(file) leaves: with no playlist selected it
\* shows a toast and returns
ItemsAfterAdd(fileName) ==
    IF selectedPlaylist = NoPlaylist THEN playlistItems
    ELSE AddedItems(playlistItems, fileName, selectedDirectoryName)

\* addFileToPlaylist(file)
addFileToPlaylist(fileName) ==
    /\ MainViewShown
    /\ fileName \in AudioFileNames
    /\ Len(playlistItems) < MaxItems
    /\ playlistItems' = ItemsAfterAdd(fileName)
    /\ UNCHANGED <<appVars, listVars, selectedPlaylist, selectedDirectoryName,
                   originalContent, containerName, isPlaylistLoading, isSaving, saveError,
                   driveContent, inFlight, requestsLeft,
                   pagingVars>>

\* a removal that cuts the list at the first item with the path
WithoutPathTruncating(items, p) ==
    IF ~HasPath(items, p) THEN items
    ELSE SubSeq(items, 1, Min({i \in 1..Len(items) : items[i].path = p}) - 1)

\* prev.filter((it) => it.path !== p)
WithoutPath(items, p) == LET Other(it) == it.path # p IN SelectSeq(items, Other)

\* the item list removeFileFromPlaylist(file) leaves
ItemsAfterRemove(fileName) ==
    WithoutPath(playlistItems, buildPathForFile(fileName, selectedDirectoryName))

\* removeFileFromPlaylist(file)
removeFileFromPlaylist(fileName) ==
    /\ MainViewShown
    /\ fileName \in AudioFileNames
    /\ playlistItems' = ItemsAfterRemove(fileName)
    /\ UNCHANGED <<appVars, listVars, selectedPlaylist, selectedDirectoryName,
                   originalContent, containerName, isPlaylistLoading, isSaving, saveError,
                   driveContent, inFlight, requestsLeft,
                   pagingVars>>

\* prev.filter((_, i) => i !== index), index counted from 0
WithoutIndex(items, index) ==
    [i \in 1..(Len(items) - 1) |-> IF i <= index THEN items[i] ELSE items[i + 1]]

\* onClick of the remove button of the item at index
removeItemAt(index) ==
    /\ ContentShown
    /\ index \in 0..(Len(playlistItems) - 1)
    /\ playlistItems' = WithoutIndex(playlistItems, index)
    /\ UNCHANGED <<appVars, listVars, selectedPlaylist, selectedDirectoryName,
                   originalContent, containerName, isPlaylistLoading, isSaving, saveError,
                   driveContent, inFlight, requestsLeft,
                   pagingVars>>

\* Array.prototype.splice(start, deleteCount) for 0 <= start, deleteCount = 1
SpliceDelete(items, start) ==
    IF start >= Len(items) THEN items
    ELSE SubSeq(items, 1, start) \o SubSeq(items, start + 2, Len(items))

\* Array.prototype.splice(start, 0, item) for 0 <= start: start is clamped to the length
SpliceInsert(items, start, item) ==
    LET at == IF start > Len(items) THEN Len(items) ELSE start
    IN  SubSeq(items, 1, at) \o <<item>> \o SubSeq(items, at + 1, Len(items))

\* handleDrop exchanging the dragged item and the item at the drop index
DroppedItemsSwapped(items, dragIndex, dropIndex) ==
    LET to == IF dropIndex >= Len(items) THEN Len(items) - 1 ELSE dropIndex
    IN  [i \in 1..Len(items) |->
            IF i = dragIndex + 1 THEN items[to + 1]
            ELSE IF i = to + 1 THEN items[dragIndex + 1]
            ELSE items[i]]

\* handleDrop inserting the dragged item without taking it out first
DroppedItemsCopied(items, dragIndex, dropIndex) ==
    SpliceInsert(items, dropIndex, items[dragIndex + 1])

\* the updater handleDrop passes to setPlaylistItems, indices counted from 0
DroppedItems(items, dragIndex, dropIndex) ==
    SpliceInsert(SpliceDelete(items, dragIndex), dropIndex, items[dragIndex + 1])

\* the item list handleDrop leaves: a drop on the zone of the dragged item's
\* own index returns before the update
ItemsAfterDrop(dragIndex, dropIndex) ==
    IF dragIndex = dropIndex THEN playlistItems
    ELSE DroppedItems(playlistItems, dragIndex, dropIndex)

\* handleDrop(e, dropIndex) for the drag that started on the item at dragIndex
handleDrop(dragIndex, dropIndex) ==
    /\ ContentShown
    /\ dragIndex \in 0..(Len(playlistItems) - 1)
    /\ dropIndex \in 0..Len(playlistItems)
    /\ playlistItems' = ItemsAfterDrop(dragIndex, dropIndex)
    /\ UNCHANGED <<appVars, listVars, selectedPlaylist, selectedDirectoryName,
                   originalContent, containerName, isPlaylistLoading, isSaving, saveError,
                   driveContent, inFlight, requestsLeft,
                   pagingVars>>

\* savePlaylist behind a Save button that stays enabled while saving
savePlaylistAlwaysEnabled ==
    /\ ContentShown
    /\ CanIssue
    /\ isSaving' = TRUE
    /\ saveError' = NoError
    /\ inFlight' = inFlight \cup
           {Request("save", selectedPlaylist,
                    generatePlaylistContent(containerName, playlistItems))}
    /\ requestsLeft' = requestsLeft - 1
    /\ UNCHANGED pagingVars
    /\ UNCHANGED <<appVars, listVars, selectedPlaylist, selectedDirectoryName,
                   originalContent, playlistItems, containerName, isPlaylistLoading,
                   driveContent>>

\* savePlaylist up to its await of updateFile
savePlaylist ==
    /\ ContentShown
    /\ ~isSaving
    /\ CanIssue
    /\ isSaving' = TRUE
    /\ saveError' = NoError
    /\ inFlight' = inFlight \cup
           {Request("save", selectedPlaylist,
                    generatePlaylistContent(containerName, playlistItems))}
    /\ requestsLeft' = requestsLeft - 1
    /\ UNCHANGED pagingVars
    /\ UNCHANGED <<appVars, listVars, selectedPlaylist, selectedDirectoryName,
                   originalContent, playlistItems, containerName, isPlaylistLoading,
                   driveContent>>

\* savePlaylist with a catch block that only logs a failure of updateFile
SaveResponseSilent(r, outcome) ==
    /\ r \in inFlight /\ r.kind = "save"
    /\ inFlight' = inFlight \ {r}
    /\ driveContent' =
           IF outcome = "ok" THEN [driveContent EXCEPT ![r.file] = r.content]
           ELSE driveContent
    /\ UNCHANGED <<appVars, listVars, requestsLeft,
                   pagingVars>>
    /\ IF ~IsCurrent(r) THEN UNCHANGED sessionVars
       ELSE /\ isSaving' = FALSE
            /\ originalContent' = IF outcome = "ok" THEN r.content ELSE originalContent
            /\ UNCHANGED <<selectedPlaylist, selectedDirectoryName, playlistItems,
                           containerName, isPlaylistLoading, saveError>>

\* savePlaylist without its finally block: the saving flag is cleared on
\* success only
SaveResponseWithoutFinally(r, outcome) ==
    /\ r \in inFlight /\ r.kind = "save"
    /\ inFlight' = inFlight \ {r}
    /\ driveContent' =
           IF outcome = "ok" THEN [driveContent EXCEPT ![r.file] = r.content]
           ELSE driveContent
    /\ UNCHANGED <<appVars, listVars, requestsLeft,
                   pagingVars>>
    /\ IF ~IsCurrent(r) THEN UNCHANGED sessionVars
       ELSE /\ isSaving' = (isSaving /\ outcome # "ok")
            /\ originalContent' = IF outcome = "ok" THEN r.content ELSE originalContent
            /\ saveError' = IF outcome = "ok" THEN saveError
                            ELSE ThrownMessage(r.kind, outcome)
            /\ UNCHANGED <<selectedPlaylist, selectedDirectoryName, playlistItems,
                           containerName, isPlaylistLoading>>

\* savePlaylist taking the document at the time of the response as the saved
\* text
SaveResponseCurrentDocument(r, outcome) ==
    /\ r \in inFlight /\ r.kind = "save"
    /\ IF outcome # "ok" /\ IsAuthenticationError(ThrownMessage(r.kind, outcome))
       THEN Unauthorized(r)
       ELSE /\ inFlight' = inFlight \ {r}
            /\ driveContent' =
                   IF outcome = "ok" THEN [driveContent EXCEPT ![r.file] = r.content]
                   ELSE driveContent
            /\ UNCHANGED <<appVars, listVars, requestsLeft,
                           pagingVars>>
            /\ IF ~IsCurrent(r) THEN UNCHANGED sessionVars
               ELSE /\ isSaving' = FALSE
                    /\ originalContent' =
                           IF outcome = "ok"
                           THEN generatePlaylistContent(containerName, playlistItems)
                           ELSE originalContent
                    /\ saveError' = IF outcome = "ok" THEN saveError
                                    ELSE ThrownMessage(r.kind, outcome)
                    /\ UNCHANGED <<selectedPlaylist, selectedDirectoryName, playlistItems,
                                   containerName, isPlaylistLoading>>

\* savePlaylist from the response of updateFile to its finally block
SaveResponse(r, outcome) ==
    /\ r \in inFlight /\ r.kind = "save"
    /\ IF outcome # "ok" /\ IsAuthenticationError(ThrownMessage(r.kind, outcome))
       THEN Unauthorized(r)
       ELSE /\ inFlight' = inFlight \ {r}
            /\ driveContent' =
                   IF outcome = "ok" THEN [driveContent EXCEPT ![r.file] = r.content]
                   ELSE driveContent
            /\ UNCHANGED <<appVars, listVars, requestsLeft,
                           pagingVars>>
            /\ IF ~IsCurrent(r) THEN UNCHANGED sessionVars
               ELSE /\ isSaving' = FALSE
                    /\ originalContent' = IF outcome = "ok" THEN r.content ELSE originalContent
                    /\ saveError' = IF outcome = "ok" THEN saveError
                                    ELSE ThrownMessage(r.kind, outcome)
                    /\ UNCHANGED <<selectedPlaylist, selectedDirectoryName, playlistItems,
                                   containerName, isPlaylistLoading>>

\* the document resetPlaylist leaves: a URIError thrown by
\* parsePlaylistContent(originalContent) leaves the handler before any setter
\* is called
DocumentAfterReset ==
    LET doc == parsePlaylistContent(originalContent)
    IN  IF doc.raised THEN [name |-> containerName, items |-> playlistItems]
        ELSE [name |-> doc.name, items |-> doc.items]

\* resetPlaylist
resetPlaylist ==
    /\ ContentShown
    /\ containerName' = DocumentAfterReset.name
    /\ playlistItems' = DocumentAfterReset.items
    /\ UNCHANGED <<appVars, listVars, selectedPlaylist, selectedDirectoryName,
                   originalContent, isPlaylistLoading, isSaving, saveError, driveContent,
                   inFlight, requestsLeft,
                   pagingVars>>

(***************************************************************************)
(* GoogleDriveService.listFiles: the pages of a folder listing             *)
(***************************************************************************)

\* no listFiles call is followed page by page
ListingIdle ==
    /\ pages = <<>>
    /\ allFiles = <<>>
    /\ pageCount = 0
    /\ nextPageToken = 0
    /\ listStatus = "idle"
    /\ listResult = <<>>
    /\ listError = NoError

\* the page a request with the page token of the loop is answered with;
\* nextPageToken = 0 stands for undefined (the first request)
RequestedPage == pages[IF nextPageToken = 0 THEN 1 ELSE nextPageToken]

\* listFiles(folderId) up to the await of its first fetch
listFiles ==
    /\ listStatus # "awaiting"
    /\ IF ~serviceAccessToken
       THEN /\ listStatus' = "thrown"
            /\ listError' = NotAuthenticatedMessage
            /\ listResult' = <<>>
            /\ UNCHANGED <<allFiles, pageCount, nextPageToken>>
       ELSE /\ allFiles' = <<>>
            /\ nextPageToken' = 0
            /\ pageCount' = 1
            /\ listStatus' = "awaiting"
            /\ listResult' = <<>>
            /\ listError' = NoError
    /\ UNCHANGED <<appVars, listVars, sessionVars, driveContent, inFlight, requestsLeft,
                   pages>>

\* a listFiles loop that keeps only the files of the page it has just read
ListPageResponseLastPageOnly(outcome) ==
    /\ listStatus = "awaiting"
    /\ outcome = "ok"
    /\ allFiles' = RequestedPage.files
    /\ nextPageToken' = RequestedPage.nextPageToken
    /\ IF RequestedPage.nextPageToken # 0
       THEN pageCount' = pageCount + 1 /\ UNCHANGED <<listStatus, listResult>>
       ELSE listStatus' = "returned" /\ listResult' = RequestedPage.files
            /\ UNCHANGED pageCount
    /\ UNCHANGED <<listError, appVars, listVars, sessionVars, driveContent, inFlight, requestsLeft,
                   pages>>

\* the body of the do-while loop of listFiles from the response of fetch to
\* the next fetch, to the return or to the throw
ListPageResponse(outcome) ==
    /\ listStatus = "awaiting"
    /\ IF outcome = "ok"
       THEN /\ allFiles' = allFiles \o RequestedPage.files
            /\ nextPageToken' = RequestedPage.nextPageToken
            /\ IF RequestedPage.nextPageToken # 0
               THEN pageCount' = pageCount + 1 /\ UNCHANGED <<listStatus, listResult>>
               ELSE listStatus' = "returned"
                    /\ listResult' = allFiles \o RequestedPage.files
                    /\ UNCHANGED pageCount
            /\ UNCHANGED <<serviceAccessToken, storedTokens, listError>>
       ELSE /\ listStatus' = "thrown"
            /\ listError' = ThrownMessage("list", outcome)
            /\ UNCHANGED listResult
            /\ serviceAccessToken' = (serviceAccessToken /\ outcome # "unauthorized")
            /\ storedTokens' = (storedTokens /\ outcome # "unauthorized")
            /\ UNCHANGED <<allFiles, pageCount, nextPageToken>>
    /\ UNCHANGED <<accessToken, mountCount, listVars, sessionVars, driveContent, inFlight,
                   requestsLeft, pages>>

(***************************************************************************)
(* Specifications                                                          *)
(***************************************************************************)

Outcomes == {"ok", "unauthorized", "failed"}

\* the folder: playlist 1 holds text, playlist 2 is a new, empty playlist
Folder(text) == [p \in PlaylistIds |-> IF p = 1 THEN text ELSE EmptyPlaylistContent]

\* PlaylistManager right after the first authentication, while loadInitialData
\* awaits the listing of the playlist folder; budget storage calls may follow
InitMounted(content, budget) ==
    /\ accessToken = TRUE
    /\ serviceAccessToken = TRUE
    /\ storedTokens = TRUE
    /\ mountCount = 1
    /\ isLoading = TRUE
    /\ error = NoError
    /\ playlists = {}
    /\ selectedPlaylist = NoPlaylist
    /\ selectedDirectoryName = 1
    /\ originalContent = EmptyPlaylistContent
    /\ playlistItems = <<>>
    /\ containerName = <<>>
    /\ isPlaylistLoading = FALSE
    /\ isSaving = FALSE
    /\ saveError = NoError
    /\ driveContent = content
    /\ inFlight = {[id |-> 1, kind |-> "list", mount |-> 1, file |-> NoPlaylist,
                    content |-> <<>>]}
    /\ requestsLeft = budget
    /\ ListingIdle

\* PlaylistManager after loadInitialData has listed the playlist folder
InitListed(content, budget) ==
    /\ accessToken = TRUE
    /\ serviceAccessToken = TRUE
    /\ storedTokens = TRUE
    /\ mountCount = 1
    /\ isLoading = FALSE
    /\ error = NoError
    /\ playlists = PlaylistIds
    /\ selectedPlaylist = NoPlaylist
    /\ selectedDirectoryName = 1
    /\ originalContent = EmptyPlaylistContent
    /\ playlistItems = <<>>
    /\ containerName = <<>>
    /\ isPlaylistLoading = FALSE
    /\ isSaving = FALSE
    /\ saveError = NoError
    /\ driveContent = content
    /\ inFlight = {}
    /\ requestsLeft = budget
    /\ ListingIdle

Init == \E t \in InitialTexts : InitMounted(Folder(t), MaxRequests)

Next ==
    \/ handleAuthenticated
    \/ handleRetry
    \/ \E r \in inFlight, o \in Outcomes : ListFilesResponse(r, o)
    \/ \E pl \in PlaylistIds : selectPlaylist(pl)
    \/ \E r \in inFlight, o \in Outcomes : LoadResponse(r, o)
    \/ \E f \in AudioFileNames : addFileToPlaylist(f)
    \/ \E f \in AudioFileNames : removeFileFromPlaylist(f)
    \/ \E i \in 0..(Len(playlistItems) - 1) : removeItemAt(i)
    \/ \E i \in 0..(Len(playlistItems) - 1), j \in 0..Len(playlistItems) : handleDrop(i, j)
    \/ savePlaylist
    \/ \E r \in inFlight, o \in Outcomes : SaveResponse(r, o)
    \/ resetPlaylist

\* the edit session: every operation of PlaylistManager on the document, the
\* storage responses and the re-authentication
Spec == Init /\ [][Next]_vars

InitEdit == \E t \in EditTexts : InitListed(Folder(t), MaxEditRequests)

NextEdit ==
    \/ \E pl \in PlaylistIds : selectPlaylist(pl)
    \/ \E r \in inFlight : LoadResponse(r, "ok")
    \/ \E dir \in DirectoryIndexes : selectDirectory(dir)
    \/ \E f \in AudioFileNames : addFileToPlaylist(f)
    \/ \E f \in AudioFileNames : removeFileFromPlaylist(f)
    \/ \E i \in 0..(Len(playlistItems) - 1) : removeItemAt(i)
    \/ \E i \in 0..(Len(playlistItems) - 1), j \in 0..Len(playlistItems) : handleDrop(i, j)
    \/ resetPlaylist

\* editing between a load and a save: one playlist is loaded, then the item
\* list is edited from both audio directories and reset
SpecEdit == InitEdit /\ [][NextEdit]_vars

InitCodec == \E t \in CodecTexts : InitListed(Folder(t), MaxCodecRequests)

NextCodec ==
    \/ \E pl \in PlaylistIds : selectPlaylist(pl)
    \/ \E r \in inFlight : LoadResponse(r, "ok")
    \/ resetPlaylist

\* the codec over the bounded set of playlist texts: each text is loaded
\* (decoded) and reset (decoded again)
SpecCodec == InitCodec /\ [][NextCodec]_vars

InitReauth == InitMounted(Folder(DuplicateText), MaxReauthRequests)

NextReauth ==
    \/ handleAuthenticated
    \/ handleRetry
    \/ \E r \in inFlight, o \in Outcomes : ListFilesResponse(r, o)
    \/ \E pl \in PlaylistIds : selectPlaylist(pl)
    \/ \E r \in inFlight, o \in Outcomes : LoadResponse(r, o)
    \/ savePlaylist
    \/ \E r \in inFlight, o \in Outcomes : SaveResponse(r, o)

\* loading and saving across re-authentications, without edits
SpecReauth == InitReauth /\ [][NextReauth]_vars

\* files of the listed folder
DriveFileIds == {1, 2}

\* the file lists of one page
PageFileLists == UNION {[1..n -> DriveFileIds] : n \in 0..MaxPageFiles}

\* the folders listFiles is run on: up to MaxPages pages; a page carries the
\* token of the page after it or no token, the last page carries none
PagedFolders ==
    UNION { { [j \in 1..n |-> [files |-> fs[j],
                               nextPageToken |-> IF more[j] /\ j < n THEN j + 1 ELSE 0]] :
              fs \in [1..n -> PageFileLists], more \in [1..n -> BOOLEAN] } :
            n \in 1..MaxPages }

InitListing ==
    /\ accessToken = TRUE
    /\ serviceAccessToken = TRUE
    /\ storedTokens = TRUE
    /\ mountCount = 1
    /\ isLoading = FALSE
    /\ error = NoError
    /\ playlists = PlaylistIds
    /\ selectedPlaylist = NoPlaylist
    /\ selectedDirectoryName = 1
    /\ originalContent = EmptyPlaylistContent
    /\ playlistItems = <<>>
    /\ containerName = <<>>
    /\ isPlaylistLoading = FALSE
    /\ isSaving = FALSE
    /\ saveError = NoError
    /\ driveContent = Folder(EmptyPlaylistContent)
    /\ inFlight = {}
    /\ requestsLeft = 0
    /\ pages \in PagedFolders
    /\ allFiles = <<>>
    /\ pageCount = 0
    /\ nextPageToken = 0
    /\ listStatus = "idle"
    /\ listResult = <<>>
    /\ listError = NoError

NextListing ==
    \/ listFiles
    \/ \E o \in Outcomes : ListPageResponse(o)

\* listFiles run page by page on every folder of PagedFolders
SpecListing == InitListing /\ [][NextListing]_vars

InitOverlap == InitListed(Folder(DuplicateText), MaxOverlapRequests)

NextOverlap ==
    \/ \E pl \in PlaylistIds : selectPlaylist(pl)
    \/ \E r \in inFlight : LoadResponse(r, "ok")
    \/ \E f \in AudioFileNames : addFileToPlaylist(f)
    \/ savePlaylist
    \/ \E r \in inFlight, o \in {"ok", "failed"} : SaveResponse(r, o)
    \/ resetPlaylist

\* loads and saves that overlap: the playlist is switched while earlier
\* getFileContent and updateFile calls are outstanding; every fetch succeeds
SpecOverlap == InitOverlap /\ [][NextOverlap]_vars

\* the edit session in which every updateFile call that is outstanding is
\* answered at some time
SpecLive ==
    Init /\ [][Next]_vars /\ WF_vars(\E r \in inFlight, o \in Outcomes : SaveResponse(r, o))

(***************************************************************************)
(* Properties of the codec                                                 *)
(***************************************************************************)

\* decode(encode(d)) has the container name and the ordered paths of the
\* document d = (name, items)
RoundTrips(name, items) ==
    LET d == parsePlaylistContent(generatePlaylistContent(name, items))
    IN  /\ ~d.raised
        /\ d.name = name
        /\ PathsOf(d.items) = PathsOf(items)

\* C1: round-trip over every edit-session document: whenever the session
\* holds a document with a non-empty item list, whatever its container name
\* (the empty name included) and whatever paths Add produced, decoding its
\* encoding gives back the same container name and the same ordered paths.
C1_RoundTripEveryDocument ==
    (Mounted /\ playlistItems # <<>>) => RoundTrips(containerName, playlistItems)

\* C2: round-trip over decoded documents: whenever a loaded text has decoded
\* to a document with at least one item, decoding the encoding of that
\* document gives the same container name and the same ordered path list.
C2_RoundTripDecodedDocument ==
    (ContentShown /\ playlistItems # <<>>) => RoundTrips(containerName, playlistItems)

\* a text whose container name is written "+%2B" was decoded to the name
\* " +" with two items
C2_Witness ==
    /\ ContentShown
    /\ originalContent = driveContent[selectedPlaylist]
    /\ Len(playlistItems) = 2
    /\ containerName = <<Space, Plus>>

\* C6: decode never fails: for every text the session has loaded, malformed
\* percent sequences in the container name included, parsePlaylistContent
\* returns a document and raises no error.
C6_DecodeNeverRaises == ~parsePlaylistContent(originalContent).raised

(***************************************************************************)
(* Properties of the edit session                                          *)
(***************************************************************************)

\* the response to the updateFile call r of the mounted instance is a failure
SaveFails(r) ==
    /\ r.kind = "save" /\ IsCurrent(r)
    /\ \/ SaveResponse(r, "failed")
       \/ SaveResponse(r, "unauthorized")

\* C3: save failure preserves edits: every failure of the updateFile call of
\* a Save, an authentication-expired failure included, leaves the container
\* name and the ordered items of the in-memory document as they were.
C3_SaveFailureKeepsDocument ==
    [][\A r \in inFlight :
          SaveFails(r) =>
              /\ containerName' = containerName
              /\ playlistItems' = playlistItems]_vars

\* C4: reset discards edits: once a Load has completed, after any Add, Remove
\* and Reorder operations a Reset makes the document the decoding of the
\* loaded text.
C4_ResetRestoresLoadedDocument ==
    (ContentShown /\ originalContent = driveContent[selectedPlaylist]) =>
        LET d == parsePlaylistContent(originalContent)
        IN  /\ ~d.raised
            /\ DocumentAfterReset = [name |-> d.name, items |-> d.items]

\* the response to the updateFile call r of the mounted instance is a success
\* and the document was not edited since Save was invoked
SaveSucceeds(r) ==
    /\ r.kind = "save" /\ IsCurrent(r)
    /\ r.content = generatePlaylistContent(containerName, playlistItems)
    /\ SaveResponse(r, "ok")

\* a Reset of the session holding the original text, the container name and
\* the items would leave the container name and the ordered paths unchanged
ResetChangesNothing(text, name, items) ==
    LET d == parsePlaylistContent(text)
    IN  /\ ~d.raised
        /\ d.name = name
        /\ PathsOf(d.items) = PathsOf(items)

\* C5: after a successful Save the original text is the encoded text that was
\* persisted, and a Reset issued right afterwards leaves the document (its
\* container name and its ordered items) unchanged.
C5_ResetAfterSaveIsNoOp ==
    [][\A r \in inFlight :
          SaveSucceeds(r) =>
              /\ originalContent' = r.content
              /\ driveContent'[r.file] = r.content
              /\ ResetChangesNothing(originalContent', containerName', playlistItems')]_vars

\* the updateFile calls that are outstanding
SavesInFlight == {r \in inFlight : r.kind = "save"}

NoDuplicatePaths(items) ==
    \A i, j \in 1..Len(items) : items[i].path = items[j].path => i = j

\* C8 as stated: in every reachable state of the edit session the item list
\* contains no two entries with the same path.
C8_NoDuplicatePathsEver == NoDuplicatePaths(playlistItems)

\* a step of Add, Remove (by file or by position) or Reorder
EditStep ==
    \/ \E f \in AudioFileNames : addFileToPlaylist(f)
    \/ \E f \in AudioFileNames : removeFileFromPlaylist(f)
    \/ \E i \in 0..(Len(playlistItems) - 1) : removeItemAt(i)
    \/ \E i \in 0..(Len(playlistItems) - 1), j \in 0..Len(playlistItems) : handleDrop(i, j)

\* C8: the edit operations keep the item list free of duplicates: an Add, a
\* Remove or a Reorder on a list without two entries of the same path leaves
\* a list without two entries of the same path (a Load or a Reset takes
\* over the duplicates of the text it decodes).
C8_EditsKeepPathsUnique ==
    [][(EditStep /\ NoDuplicatePaths(playlistItems))
          => NoDuplicatePaths(playlistItems')]_vars

\* both audio files were added to the new, empty playlist
C8_Witness ==
    /\ ContentShown
    /\ selectedPlaylist = 2
    /\ Len(playlistItems) = 2
    /\ NoDuplicatePaths(playlistItems)

\* what Add of the file f is specified to do, said of the list after
AddOutcome(f, after) ==
    LET p == buildPathForFile(f, selectedDirectoryName)
        n == Len(playlistItems)
    IN  IF \E i \in 1..n : playlistItems[i].path = p
        THEN after = playlistItems
        ELSE /\ Len(after) = n + 1
             /\ after[n + 1].path = p
             /\ \A i \in 1..n : after[i] = playlistItems[i]

\* C9 as stated: Add of a track whose resolved path is in the item list is a
\* no-op; any other Add appends the track and keeps the existing items in
\* their positions.
C9_AddIsIdempotentAppend ==
    MainViewShown => \A f \in AudioFileNames : AddOutcome(f, ItemsAfterAdd(f))

\* C9: with a playlist selected, Add of a track whose resolved path is in the
\* item list is a no-op; any other Add appends the track and keeps the
\* existing items in their positions. With no playlist selected Add changes
\* nothing.
C9_AddWithPlaylistSelected ==
    MainViewShown =>
        \A f \in AudioFileNames :
            IF selectedPlaylist # NoPlaylist THEN AddOutcome(f, ItemsAfterAdd(f))
            ELSE ItemsAfterAdd(f) = playlistItems

\* a file of the second audio directory was added behind a loaded item
C9_Witness ==
    /\ selectedPlaylist = 1
    /\ Len(playlistItems) = 2
    /\ playlistItems[1].path \in {PathA, PathB, PathC}
    /\ \E f \in AudioFileNames : playlistItems[2].path = buildPathForFile(f, 2)

\* items without the item at index from (counted from 0)
Remaining(items, from) ==
    [i \in 1..(Len(items) - 1) |-> IF i <= from THEN items[i] ELSE items[i + 1]]

\* the item at index from removed and reinserted at index to of the remaining
\* sequence; the drop zone behind the last item inserts at the end
Moved(items, from, to) ==
    LET rest == Remaining(items, from)
        at   == IF to > Len(rest) THEN Len(rest) ELSE to
    IN  [i \in 1..Len(items) |->
            IF i <= at THEN rest[i]
            ELSE IF i = at + 1 THEN items[from + 1]
            ELSE rest[i - 1]]

\* C10: Reorder has move semantics: a drop of the item dragged from index i on
\* the drop zone j removes the item at i and reinserts it at j of the remaining
\* sequence; for the items [A, B, C], Reorder(0, 2) yields [B, C, A].
C10_ReorderMoves ==
    ContentShown =>
        /\ \A i \in 0..(Len(playlistItems) - 1), j \in 0..Len(playlistItems) :
              ItemsAfterDrop(i, j) = Moved(playlistItems, i, j)
        /\ PathsOf(playlistItems) = <<PathA, PathB, PathC>>
              => PathsOf(ItemsAfterDrop(0, 2)) = <<PathB, PathC, PathA>>

\* the loaded items [A, B, C] after Reorder(0, 2)
C10_Witness ==
    /\ ContentShown
    /\ PathsOf(playlistItems) = <<PathB, PathC, PathA>>

(***************************************************************************)
(* Remove                                                                  *)
(***************************************************************************)

\* the items of items whose path is not p, in their order
RECURSIVE Kept(_, _)
Kept(items, p) ==
    IF items = <<>> THEN <<>>
    ELSE (IF Head(items).path = p THEN <<>> ELSE <<Head(items)>>) \o Kept(Tail(items), p)

\* after is before without the items of path p
RemoveOutcome(before, p, after) ==
    /\ ~HasPath(after, p)
    /\ after = Kept(before, p)
    /\ ~HasPath(before, p) => after = before

\* C11: Remove(path) removes the item whose path equals the argument, keeps
\* every other item and their relative order, and changes nothing when no
\* item has that path; the remove button of a listed item removes that item
\* and keeps every other item in order.
C11_RemoveKeepsTheOthers ==
    /\ MainViewShown =>
          \A f \in AudioFileNames :
              RemoveOutcome(playlistItems, buildPathForFile(f, selectedDirectoryName),
                            ItemsAfterRemove(f))
    /\ ContentShown =>
          \A i \in 1..Len(playlistItems) :
              WithoutIndex(playlistItems, i - 1) =
                  SubSeq(playlistItems, 1, i - 1)
                      \o SubSeq(playlistItems, i + 1, Len(playlistItems))

\* the first of the three loaded items was removed, the other two follow in
\* their order
C11_Witness ==
    /\ ContentShown
    /\ originalContent = ShowText
    /\ PathsOf(playlistItems) = <<PathB, PathC>>

(***************************************************************************)
(* Load                                                                    *)
(***************************************************************************)

\* getFileContent has returned the text of the file to the load effect of the
\* mounted instance
LoadCompletes(r) ==
    /\ r.kind = "load" /\ IsCurrent(r)
    /\ LoadResponse(r, "ok")

\* C12: Load(rawText) always succeeds: once the load of a text completes, the
\* original text is that text and the document (container name and items) is
\* its decoding, which exists.
C12_LoadStoresTextAndDecoding ==
    [][\A r \in inFlight :
          LoadCompletes(r) =>
              LET d == parsePlaylistContent(driveContent[r.file])
              IN  /\ originalContent' = driveContent[r.file]
                  /\ ~d.raised
                  /\ containerName' = d.name
                  /\ playlistItems' = d.items]_vars

(***************************************************************************)
(* Encode                                                                  *)
(***************************************************************************)

\* C13: empty-items encode: for every document whose item list is empty,
\* whatever its container name, generatePlaylistContent returns exactly the
\* text "#EXTM3U" followed by one line feed, without a Container line.
C13_EmptyItemsEncodeToFormatLine ==
    (Mounted /\ playlistItems = <<>>) =>
        generatePlaylistContent(containerName, playlistItems) = Str("#EXTM3U") \o <<10>>

\* the only item of the playlist named "Mix" was removed and Save has sent
\* the format line alone
C13_Witness ==
    /\ ContentShown
    /\ containerName = Str("Mix")
    /\ playlistItems = <<>>
    /\ \E r \in SavesInFlight : IsCurrent(r) /\ r.content = Str("#EXTM3U") \o <<10>>

\* the format line and the opening of the container line
FormatLineText == Str("#EXTM3U") \o <<10>>

ContainerOpeningText == Str("Container=<")

PlaceholderName == Str("Not predefined")

\* the percent-encoded name, or placeholder name, with '+' for every %20
WrittenName(name) ==
    ReplacePct20ByPlus(encodeURIComponent(IF name = <<>> THEN PlaceholderName ELSE name))

\* the paths of a non-empty item list in list order with '|' between them
RECURSIVE PathsInOrder(_)
PathsInOrder(items) ==
    IF Len(items) = 1 THEN items[1].path
    ELSE items[1].path \o <<Pipe>> \o PathsInOrder(Tail(items))

\* a written name holds no space and no character outside the unreserved
\* characters, '%' and '+'
IsWrittenName(s) ==
    \A i \in 1..Len(s) : s[i] # Space /\ (IsUriUnreserved(s[i]) \/ s[i] \in {Percent, Plus})

\* the encoding of (name, items) is the format line and one Container line
EncodesToContainerLine(name, items) ==
    /\ generatePlaylistContent(name, items) =
           FormatLineText \o ContainerOpeningText \o WrittenName(name) \o <<Greater>>
               \o PathsInOrder(items) \o <<10>>
    /\ IsWrittenName(WrittenName(name))
    /\ IndexOf(WrittenName(name), Pct20) = 0

\* C14: the encoding of a document with at least one item is the format line
\* followed by one Container line: the percent-encoded container name (the
\* placeholder name when the name is empty) with '+' for every %20 between
\* '<' and '>', then the paths in list order joined with '|', unencoded, and
\* a line feed.
C14_EncodeWritesOneContainerLine ==
    (ContentShown /\ playlistItems # <<>>) =>
        \A name \in {containerName, <<>>} : EncodesToContainerLine(name, playlistItems)

\* the document named "e-acute, space" with two items is written with the
\* name %C3%A9+ and the two paths as they are
C14_Witness ==
    /\ ContentShown
    /\ containerName = <<233, Space>>
    /\ generatePlaylistContent(containerName, playlistItems) =
           FormatLineText \o Str("Container=<%C3%A9+>C:\\a.mp3|C:\\b.wav") \o <<10>>

(***************************************************************************)
(* Decode                                                                  *)
(***************************************************************************)

\* line has the form Container=<NAME>PATHS with NAME and PATHS not empty
IsContainerLine(line) ==
    /\ StartsWith(line, ContainerOpeningText)
    /\ \E g \in (Len(ContainerOpeningText) + 2)..(Len(line) - 1) :
          /\ line[g] = Greater
          /\ \A k \in (Len(ContainerOpeningText) + 1)..(g - 1) : line[k] # Greater

\* the lines of text, without the line feeds
LinesOfText(text) == Split(text, LineFeed)

NoContainerLine(text) ==
    \A i \in 1..Len(LinesOfText(text)) : ~IsContainerLine(LinesOfText(text)[i])

\* text without the lines that are no container lines
ContainerLinesOnly(text) == Join(SelectSeq(LinesOfText(text), IsContainerLine), LineFeed)

\* C15: decoding a text without a container line (only a format line or
\* unrecognized lines) gives the empty item list and the empty container
\* name, and in every text the lines other than container lines contribute
\* neither items nor a name: the decoding is that of the container lines
\* alone.
C15_OnlyContainerLinesCount ==
    ContentShown =>
        LET d == parsePlaylistContent(originalContent)
        IN  /\ d = parsePlaylistContent(ContainerLinesOnly(originalContent))
            /\ NoContainerLine(originalContent) =>
                  /\ ~d.raised /\ d.name = <<>> /\ d.items = <<>>
                  /\ containerName = <<>> /\ playlistItems = <<>>

\* the text "garbage" and a line feed was loaded and decoded to the empty
\* document
C15_Witness ==
    /\ ContentShown
    /\ selectedPlaylist = 1
    /\ originalContent = Str("garbage") \o <<10>>
    /\ containerName = <<>> /\ playlistItems = <<>>

\* the two-line texts "#EXTM3U", "Container=<NAME>PATHS" over the encoded
\* names and the non-empty path texts
ContainerLineCases ==
    { [name |-> n, paths |-> p,
       text |-> FormatLineText \o ContainerOpeningText \o n \o <<Greater>> \o p \o <<10>>] :
      n \in EncodedNames \ {<<>>}, p \in PathLists \ {<<>>} }

\* the trimmed texts of the non-blank pieces, in order
RECURSIVE TrimmedNonBlank(_)
TrimmedNonBlank(pieces) ==
    IF pieces = <<>> THEN <<>>
    ELSE (IF Trim(Head(pieces)) = <<>> THEN <<>> ELSE <<Trim(Head(pieces))>>)
         \o TrimmedNonBlank(Tail(pieces))

\* the document decoded from the container line of NAME and PATHS: NAME with
\* a space for every '+', percent-decoded, and one item per non-blank path
DecodesContainerLine(d, name, paths) ==
    /\ ~d.raised
    /\ ~decodeURIComponent(ReplacePlusBySpace(name)).raised
    /\ d.name = decodeURIComponent(ReplacePlusBySpace(name)).value
    /\ PathsOf(d.items) = TrimmedNonBlank(Split(paths, Pipe))

\* C16: decoding a container line Container=<NAME>P1|...|Pn gives the
\* container name obtained from NAME by replacing every '+' with a space and
\* percent-decoding the result, and one item per non-blank path between the
\* '|' separators, in order, whose path is the trimmed path text.
C16_ContainerLineDecodes ==
    ContentShown =>
        \A c \in ContainerLineCases :
            c.text = originalContent =>
                /\ DecodesContainerLine(parsePlaylistContent(c.text), c.name, c.paths)
                /\ containerName = parsePlaylistContent(c.text).name
                /\ playlistItems = parsePlaylistContent(c.text).items

\* the text after the last backslash or forward slash of path
FinalSegment(path) ==
    LET seps == {i \in 1..Len(path) : path[i] \in {Backslash, Slash}}
    IN  IF seps = {} THEN path ELSE SubSeq(path, Max(seps) + 1, Len(path))

\* C17: for every decoded item the display name is the final segment of its
\* path, segments being separated by backslashes or by forward slashes, with
\* the file extension stripped; for backslash paths, forward-slash paths and
\* paths with both.
C17_DisplayNameIsFinalSegment ==
    ContentShown =>
        \A i \in 1..Len(playlistItems) :
            playlistItems[i].filename =
                removeFileExtension(FinalSegment(playlistItems[i].path))

(***************************************************************************)
(* Failures of storage calls                                               *)
(***************************************************************************)

\* the response to the updateFile call r is a failure
UpdateFails(r) ==
    /\ r.kind = "save"
    /\ \/ SaveResponse(r, "failed")
       \/ SaveResponse(r, "unauthorized")

UnauthorizedResponse(r) ==
    \/ ListFilesResponse(r, "unauthorized")
    \/ LoadResponse(r, "unauthorized")
    \/ SaveResponse(r, "unauthorized")

\* C19: authentication-expired propagation: whenever a listFiles,
\* getFileContent or updateFile call receives the status 401, the access
\* token of the service and the stored tokens are cleared and the access
\* token of the application becomes null, which removes the playlist view.
C19_UnauthorizedClearsEveryToken ==
    [][\A r \in inFlight :
          UnauthorizedResponse(r) =>
              /\ ~serviceAccessToken'
              /\ ~storedTokens'
              /\ ~accessToken'
              /\ ~MainViewShown']_vars

\* the playlist load and the Save were issued and answered, one of them with
\* the status 401: no token is left
C19_Witness ==
    /\ ~accessToken /\ ~serviceAccessToken /\ ~storedTokens
    /\ inFlight = {}
    /\ requestsLeft = 0

\* getFileContent has failed for the load effect of the mounted instance with
\* an error that is no authentication error
LoadFails(r) ==
    /\ r.kind = "load" /\ IsCurrent(r)
    /\ LoadResponse(r, "failed")

\* C20: a failed load of the selected playlist is shown: after getFileContent
\* has failed with not-found or another error that is no authentication
\* error, one of the messages the view renders (the error card, the save
\* alert) carries the failure.
C20_FailedLoadIsShown ==
    [][\A r \in inFlight :
          LoadFails(r) =>
              \/ error' = ThrownMessage("load", "failed")
              \/ saveError' = ThrownMessage("load", "failed")]_vars

(***************************************************************************)
(* Loads, saves and the selected playlist                                  *)
(***************************************************************************)

\* the load r of the mounted instance fails: getFileContent fails, or the
\* text it returns cannot be decoded
LoadFailsOrCannotDecode(r) ==
    /\ r.kind = "load" /\ IsCurrent(r)
    /\ \/ LoadResponse(r, "failed")
       \/ LoadResponse(r, "unauthorized")
       \/ parsePlaylistContent(driveContent[r.file]).raised /\ LoadResponse(r, "ok")

\* C21: failures leave prior state intact: when a Load fails, because the
\* fetch fails or because the fetched text cannot be decoded, the original
\* text, the container name and the items are what they were before.
C21_FailedLoadKeepsState ==
    [][\A r \in inFlight :
          LoadFailsOrCannotDecode(r) =>
              /\ originalContent' = originalContent
              /\ containerName' = containerName
              /\ playlistItems' = playlistItems]_vars

(***************************************************************************)
(* Path template                                                           *)
(***************************************************************************)

FallbackPrefixText == Str("T:\\My Drive\\Audio\\")

\* the template of directory dir with the token {audio_filename} replaced by
\* the file name as it is
VerbatimPath(fileName, dir) ==
    LET template == DEFAULT_AUDIO_DIRECTORIES[dir].localPath
        token    == Str("{audio_filename}")
        k        == IndexOf(template, token)
    IN  SubSeq(template, 1, k - 1) \o fileName
            \o SubSeq(template, k + Len(token), Len(template))

\* the path of fileName is its verbatim path in every directory and the
\* fallback path without a directory; Add, Remove and the in-playlist test
\* of the session use the verbatim path of the selected directory
ResolvesVerbatim(fileName) ==
    /\ \A dir \in DirectoryIndexes :
          buildPathForFile(fileName, dir) = VerbatimPath(fileName, dir)
    /\ buildPathForFile(fileName, 0) = FallbackPrefixText \o fileName
    /\ LET p == VerbatimPath(fileName, selectedDirectoryName)
       IN  /\ isInPlaylist(fileName) <=> HasPath(playlistItems, p)
           /\ selectedPlaylist # NoPlaylist => HasPath(ItemsAfterAdd(fileName), p)
           /\ ~HasPath(ItemsAfterRemove(fileName), p)

\* C22: path template resolution: the path of a file is the template of the
\* selected directory with the token {audio_filename} replaced by the file
\* name verbatim, for every file name, names with '$' sequences included;
\* without a directory it is the fallback prefix followed by the file name;
\* Add, Remove and the in-playlist test use this same path.
C22_PathIsTemplateWithFileName ==
    [][\A f \in AudioFileNames :
          addFileToPlaylist(f) =>
              /\ ResolvesVerbatim(f)
              /\ HasPath(playlistItems', VerbatimPath(f, selectedDirectoryName))]_vars

(***************************************************************************)
(* Folder listing                                                          *)
(***************************************************************************)

\* the first page of folder that carries no token of a next page
FirstPageWithoutToken(folder) ==
    Min({j \in 1..Len(folder) : folder[j].nextPageToken = 0})

\* the files of the pages 1..n of folder, page after page
RECURSIVE FilesOfPages(_, _)
FilesOfPages(folder, n) ==
    IF n = 0 THEN <<>> ELSE FilesOfPages(folder, n - 1) \o folder[n].files

\* C23: listFiles materializes all pages: it requests the next page while
\* the previous response carried a nextPageToken and stops at the first
\* response without one; what it returns is the concatenation, in page
\* order, of the files of every page it read; when a page request fails it
\* throws and returns no list, not even the files read so far.
C23_ListFilesReturnsEveryPage ==
    /\ listStatus = "awaiting" =>
          /\ pageCount <= FirstPageWithoutToken(pages)
          /\ allFiles = FilesOfPages(pages, pageCount - 1)
          /\ listResult = <<>> /\ listError = NoError
    /\ listStatus = "returned" =>
          /\ pageCount = FirstPageWithoutToken(pages)
          /\ listResult = FilesOfPages(pages, FirstPageWithoutToken(pages))
          /\ listError = NoError
    /\ listStatus = "thrown" =>
          /\ listResult = <<>>
          /\ listError # NoError

\* three pages were read and the call has returned the four files in page
\* order
C23_Witness ==
    /\ listStatus = "returned"
    /\ pageCount = 3
    /\ Len(pages[1].files) = 2 /\ pages[2].files = <<>> /\ Len(pages[3].files) = 2
    /\ listResult = pages[1].files \o pages[3].files

(***************************************************************************)
(* Overlapping loads and saves                                             *)
(***************************************************************************)

\* no getFileContent and no updateFile call is outstanding
NoLoadOrSaveInFlight == \A r \in inFlight : r.kind \notin {"load", "save"}

\* C24: whenever no load and no save is in flight, the original text is the
\* text of the selected playlist as last fetched from or saved to the
\* storage, also after a failed load of a newly selected playlist; so Save
\* does not write the content of one playlist into the file of another.
C24_OriginalIsTextOfSelection ==
    (ContentShown /\ NoLoadOrSaveInFlight) =>
        originalContent = driveContent[selectedPlaylist]

\* the load r completes and it is the last outstanding load
LastLoadCompletes(r) ==
    /\ LoadCompletes(r)
    /\ \A q \in inFlight \ {r} : q.kind # "load"

\* C25: last selection wins: when one playlist is selected and then another
\* before the first fetch has completed, then once the fetches have
\* completed the original text and the document are those of the playlist
\* selected last, in whichever order the fetches complete.
C25_LastSelectionWins ==
    [][\A r \in inFlight :
          LastLoadCompletes(r) =>
              LET d == parsePlaylistContent(driveContent[selectedPlaylist])
              IN  /\ originalContent' = driveContent[selectedPlaylist]
                  /\ containerName' = d.name
                  /\ playlistItems' = d.items]_vars

\* the Save r of the mounted instance succeeds after another playlist than
\* the one it wrote to has been selected and loaded
StaleSaveSucceeds(r) ==
    /\ r.kind = "save" /\ IsCurrent(r)
    /\ r.file # selectedPlaylist
    /\ \A q \in inFlight : q.kind # "load"
    /\ originalContent = driveContent[selectedPlaylist]
    /\ SaveResponse(r, "ok")

\* C26: a Save that completes after the user has switched to another
\* playlist does not change the session state of the newly selected
\* playlist: the original text stays the text loaded for the selected
\* playlist, and so do the container name and the items.
C26_LateSaveKeepsNewSelection ==
    [][\A r \in inFlight :
          StaleSaveSucceeds(r) =>
              /\ originalContent' = originalContent
              /\ containerName' = containerName
              /\ playlistItems' = playlistItems]_vars

\* the getFileContent calls of the mounted instance that are outstanding
LoadsInFlight == {r \in inFlight : r.kind = "load" /\ IsCurrent(r)}

\* C27: the loading flag isPlaylistLoading is true in every state in which
\* at least one playlist content fetch is in flight, so that Save and Reset
\* are not shown until the most recent load has finished, also when several
\* loads overlap.
C27_LoadingWhileFetchInFlight ==
    LoadsInFlight # {} => (isPlaylistLoading /\ ~ContentShown)

\* the Save r of the mounted instance succeeds while the playlist it wrote
\* is the selected one
SaveOfSelectionSucceeds(r) ==
    /\ r.kind = "save" /\ IsCurrent(r)
    /\ r.file = selectedPlaylist
    /\ SaveResponse(r, "ok")

\* C28: edits made while a Save is in flight are neither lost nor marked as
\* saved: when the Save succeeds the container name and the items are what
\* the edits left, the original text is the text that was sent, which is the
\* text the storage now holds, and a Reset would decode exactly that text.
C28_EditsDuringSaveAreKept ==
    [][\A r \in inFlight :
          SaveOfSelectionSucceeds(r) =>
              /\ containerName' = containerName
              /\ playlistItems' = playlistItems
              /\ originalContent' = r.content
              /\ driveContent'[r.file] = r.content
              /\ ~parsePlaylistContent(originalContent').raised]_vars

\* the new playlist was saved with one item while a second item was added:
\* the Save has succeeded, the original text names the first item only and
\* the list holds both
C28_Witness ==
    /\ ContentShown /\ selectedPlaylist = 2
    /\ ~isSaving /\ SavesInFlight = {}
    /\ Len(playlistItems) = 2
    /\ originalContent = driveContent[2]
    /\ originalContent = generatePlaylistContent(containerName, SubSeq(playlistItems, 1, 1))

(***************************************************************************)
(* The saving flag                                                         *)
(***************************************************************************)

\* C29: every Save that is started ends with the saving flag false, on
\* success, on a failure and on an authentication failure alike, provided
\* the updateFile call completes; the saving flag is true only while an
\* updateFile call of the instance is in flight, so Save never stays
\* disabled forever.
C29_SavingEnds ==
    /\ [](isSaving => \E r \in SavesInFlight : IsCurrent(r))
    /\ (isSaving ~> ~isSaving)

\* the Save of the new playlist has ended: the file holds a container line
\* and the Save button is enabled
C29_Witness ==
    /\ ContentShown /\ selectedPlaylist = 2
    /\ driveContent[2] # EmptyPlaylistContent
    /\ ~isSaving

(***************************************************************************)
(* A drop permutes the list                                                *)
(***************************************************************************)

\* the number of positions of items that hold x
Occurrences(items, x) == Cardinality({k \in DOMAIN items : items[k] = x})

\* before and after hold the same items, each as many times
SameMultiset(before, after) ==
    \A x \in {before[k] : k \in DOMAIN before} \cup {after[k] : k \in DOMAIN after} :
        Occurrences(before, x) = Occurrences(after, x)

\* after holds the item dragged from index i at some position, and the other
\* items around it in the order they had in before
OthersKeepOrder(before, i, after) ==
    \E k \in DOMAIN after :
        /\ after[k] = before[i + 1]
        /\ WithoutIndex(after, k - 1) = WithoutIndex(before, i)

\* C30: a drop is a permutation: for a list of length n, every drag index in
\* 0..n-1 and every drop zone in 0..n (the zone behind the last item
\* included), handleDrop leaves a list of the same length with the same
\* multiset of items in which the other items keep their relative order; a
\* drop with the drag index equal to the drop index leaves the list unchanged.
C30_DropIsPermutation ==
    ContentShown =>
        \A i \in 0..(Len(playlistItems) - 1), j \in 0..Len(playlistItems) :
            /\ Len(ItemsAfterDrop(i, j)) = Len(playlistItems)
            /\ SameMultiset(playlistItems, ItemsAfterDrop(i, j))
            /\ OthersKeepOrder(playlistItems, i, ItemsAfterDrop(i, j))
            /\ i = j => ItemsAfterDrop(i, j) = playlistItems

\* the loaded items [A, B, C] after the drop of B on the zone behind the last
\* item
C30_Witness ==
    /\ ContentShown
    /\ PathsOf(playlistItems) = <<PathA, PathC, PathB>>
====
